---- MODULE Spec2Model ----
(***************************************************************************)
(* models.py: the registry experiment_dict, a dict literal built at module *)
(* load that maps experiment identifiers to {note, name, pl}, where pl is  *)
(* an sklearn estimator object built from literal arguments.               *)
(*                                                                         *)
(* The module is modelled as its load (the imports, then the dict display  *)
(* evaluated item by item in literal order, then the binding of the name)  *)
(* followed by the lookups experiment_dict[k] of the importing scripts.    *)
(*                                                                         *)
(* The module fixes neither the interpreter nor the scikit-learn release   *)
(* it is loaded with: env is the one in use, chosen when the load starts.  *)
(***************************************************************************)
EXTENDS Integers, Sequences, FiniteSets, TLC

VARIABLES env, pc, error, imported, next, experiment_dict, log

vars == <<env, pc, error, imported, next, experiment_dict, log>>

(***************************************************************************)
(* Bounds of the model.                                                    *)
(***************************************************************************)
\* number of lookups the importing script performs in one run
MaxLookups == 2

(***************************************************************************)
(* Python values that appear as keyword arguments and grid values.  A      *)
(* value carries its Python type; a float is held as value * FloatScale.   *)
(***************************************************************************)
FloatScale == 10000

PyInt(n) == [t |-> "int", v |-> n]

PyFloat(num, den) == [t |-> "float", v |-> (num * FloatScale) \div den]

PyStr(s) == [t |-> "str", v |-> s]

PyNone == [t |-> "none", v |-> "None"]

IsNum(a) == a.t \in {"int", "float"}

NumVal(a) == IF a.t = "int" THEN a.v * FloatScale ELSE a.v

\* Python's == on these values: numbers compare by value across int and
\* float (10.0 == 10), everything else by type and value.
PyEq(a, b) ==
    IF IsNum(a) /\ IsNum(b) THEN NumVal(a) = NumVal(b)
    ELSE a.t = b.t /\ a.v = b.v

\* Python's  x in list
PyIn(a, list) == \E i \in DOMAIN list : PyEq(a, list[i])

\* a list display [x, y, ...]
PyList(items) == [type |-> "list", items |-> items]

\* the call range(a, b), over the integers a .. b-1 in order
Range(a, b) == [type |-> "range", items |-> [i \in 1..(b - a) |-> PyInt(a + i - 1)]]

\* what an argument evaluates to: range() returns a list under Python 2
\* and a range object under Python 3; a list display is a list
Evaluate(arg, python) ==
    IF arg.type = "range" /\ python = 2 THEN PyList(arg.items) ELSE arg

(***************************************************************************)
(* Constructor calls as they are written in the literal.  A call is        *)
(*   cls    the class called                                               *)
(*   kw     the keyword arguments given, a set of <<name, value>>          *)
(*   parts  the estimators passed in, a sequence of <<name, call>>: the    *)
(*          steps of a Pipeline, the estimators of a VotingClassifier, or  *)
(*          the one wrapped estimator of a Bagging/AdaBoost/GridSearchCV   *)
(*   grid   the param_grid of a GridSearchCV, a set of <<key, values>>     *)
(*          where key is the parameter name split at "__" and values is    *)
(*          the list display or range() call given for it                  *)
(***************************************************************************)
Call(cls, kw, parts, grid) ==
    [cls |-> cls, kw |-> kw, parts |-> parts, grid |-> grid]

Estimator(cls, kw) == Call(cls, kw, <<>>, {})

DummyClassifier(kw) == Estimator("DummyClassifier", kw)
SGDClassifier(kw) == Estimator("SGDClassifier", kw)
StandardScaler(kw) == Estimator("StandardScaler", kw)
KNeighborsClassifier(kw) == Estimator("KNeighborsClassifier", kw)
SVC(kw) == Estimator("SVC", kw)
DecisionTreeClassifier(kw) == Estimator("DecisionTreeClassifier", kw)
RandomForestClassifier(kw) == Estimator("RandomForestClassifier", kw)
ExtraTreesClassifier(kw) == Estimator("ExtraTreesClassifier", kw)
GaussianNB(kw) == Estimator("GaussianNB", kw)
MultinomialNB(kw) == Estimator("MultinomialNB", kw)
LinearDiscriminantAnalysis(kw) == Estimator("LinearDiscriminantAnalysis", kw)
QuadraticDiscriminantAnalysis(kw) == Estimator("QuadraticDiscriminantAnalysis", kw)
LogisticRegression(kw) == Estimator("LogisticRegression", kw)

\* AdaBoostClassifier() or AdaBoostClassifier(base_estimator, ...)
AdaBoostClassifier(base, kw) == Call("AdaBoostClassifier", kw, base, {})

BaggingClassifier(base, kw) ==
    Call("BaggingClassifier", kw, << <<"base_estimator", base>> >>, {})

VotingClassifier(estimators) == Call("VotingClassifier", {}, estimators, {})

Pipeline(steps) == Call("Pipeline", {}, steps, {})

GridSearchCV(estimator, param_grid, kw) ==
    Call("GridSearchCV", kw, << <<"estimator", estimator>> >>, param_grid)

\* one item of the dict display:  key: {'note': .., 'name': .., 'pl': ..}
Item(key, note, name, pl) ==
    [key |-> key, note |-> note, name |-> name, pl |-> pl]

(***************************************************************************)
(* The items of the dict display, in the order they are written.           *)
(***************************************************************************)
\* experiments to build pipeline; default classifiers with and without scaling
expt_1 ==
    Item("expt_1",
         "random guessing (maintains class distributions)",
         "Crash Test Dummies",
         Pipeline(<< <<"dummy_clf", DummyClassifier({})>> >>))

expt_2 ==
    Item("expt_2",
         "vanilla linear svm (heard it through the grapevine)",
         "Grapevine",
         Pipeline(<< <<"linear_svm", SGDClassifier({<<"n_jobs", PyInt(-1)>>})>> >>))

\* the classifier step left out: the Pipeline ends in the scaler
expt_3_noclf ==
    Item("expt_3",
         "add scaling prior to SVM (you must be this tall to ride)",
         "This tall to ride",
         Pipeline(<< <<"scaling", StandardScaler({})>> >>))

expt_3 ==
    Item("expt_3",
         "add scaling prior to SVM (you must be this tall to ride)",
         "This tall to ride",
         Pipeline(<< <<"scaling", StandardScaler({})>>, <<"linear_svm", SGDClassifier({<<"n_jobs", PyInt(-1)>>})>> >>))

expt_4 ==
    Item("expt_4",
         "vanilla knn (mac and kelly from 2014 \"neighbors\"",
         "Mac and Kelly",
         Pipeline(<< <<"knn", KNeighborsClassifier({<<"n_jobs", PyInt(-1)>>})>> >>))

expt_5 ==
    Item("expt_5",
         "scaled knn",
         "scaled knn",
         Pipeline(<< <<"scaling", StandardScaler({})>>, <<"knn", KNeighborsClassifier({<<"n_jobs", PyInt(-1)>>})>> >>))

expt_6 ==
    Item("expt_6",
         "rbf kernel SVM",
         "rbf kernel SVM",
         Pipeline(<< <<"rbf-svm", SVC({<<"kernel", PyStr("rbf")>>})>> >>))

expt_7 ==
    Item("expt_7",
         "scaled rbf kernel SVM",
         "Portable popcorn machine",
         Pipeline(<< <<"scaling", StandardScaler({})>>, <<"rbf-svm", SVC({<<"kernel", PyStr("rbf")>>, <<"cache_size", PyInt(1000)>>})>> >>))

\* the display name left empty
expt_8_noname ==
    Item("expt_8",
         "default decision tree",
         "",
         Pipeline(<< <<"decision-tree", DecisionTreeClassifier({})>> >>))

expt_8 ==
    Item("expt_8",
         "default decision tree",
         "default decision tree",
         Pipeline(<< <<"decision-tree", DecisionTreeClassifier({})>> >>))

expt_9 ==
    Item("expt_9",
         "scaled default decision tree",
         "scaled default decision tree",
         Pipeline(<< <<"scaling", StandardScaler({})>>, <<"decision-tree", DecisionTreeClassifier({})>> >>))

expt_10 ==
    Item("expt_10",
         "default RF",
         "default RF",
         Pipeline(<< <<"random-forest", RandomForestClassifier({})>> >>))

expt_11 ==
    Item("expt_11",
         "scaled default RF",
         "scaled default RF",
         Pipeline(<< <<"scaling", StandardScaler({})>>, <<"random-forest", RandomForestClassifier({})>> >>))

expt_12 ==
    Item("expt_12",
         "default adaboost",
         "default adaboost",
         Pipeline(<< <<"DT-adaboost", AdaBoostClassifier(<<>>, {})>> >>))

expt_13 ==
    Item("expt_13",
         "scaled default adaboost",
         "scaled default adaboost",
         Pipeline(<< <<"scaling", StandardScaler({})>>, <<"DT-adaboost", AdaBoostClassifier(<<>>, {})>> >>))

expt_14 ==
    Item("expt_14",
         "default Gaussian NB",
         "default Gaussian NB",
         Pipeline(<< <<"gaussian-nb", GaussianNB({})>> >>))

expt_15 ==
    Item("expt_15",
         "scaled Gaussian NB",
         "scaled Gaussian NB",
         Pipeline(<< <<"scaling", StandardScaler({})>>, <<"gaussian-nb", GaussianNB({})>> >>))

expt_16 ==
    Item("expt_16",
         "default Multinomial NB",
         "default Multinomial NB",
         Pipeline(<< <<"multi-nb", MultinomialNB({})>> >>))

expt_17 ==
    Item("expt_17",
         "scaled Multinomial NB",
         "scaled Multinomial NB",
         Pipeline(<< <<"scaling", StandardScaler({})>>, <<"multi-nb", MultinomialNB({})>> >>))

expt_18 ==
    Item("expt_18",
         "default LDA",
         "default LDA",
         Pipeline(<< <<"linear-da", LinearDiscriminantAnalysis({})>> >>))

expt_19 ==
    Item("expt_19",
         "scaled LDA",
         "scaled LDA",
         Pipeline(<< <<"scaling", StandardScaler({})>>, <<"linear-da", LinearDiscriminantAnalysis({})>> >>))

expt_20 ==
    Item("expt_20",
         "default QDA",
         "default QDA",
         Pipeline(<< <<"Quadratic-da", QuadraticDiscriminantAnalysis({})>> >>))

expt_21 ==
    Item("expt_21",
         "scaled QDA",
         "scaled QDA",
         Pipeline(<< <<"scaling", StandardScaler({})>>, <<"Quadratic-da", QuadraticDiscriminantAnalysis({})>> >>))

expt_22 ==
    Item("expt_22",
         "default (multi-class) Logistic regression",
         "default (multi-class) Logistic regression",
         Pipeline(<< <<"log-reg", LogisticRegression({<<"n_jobs", PyInt(-1)>>})>> >>))

expt_23 ==
    Item("expt_23",
         "scaled default (multi-class) Logistic regression",
         "scaled default (multi-class) Logistic regression",
         Pipeline(<< <<"scaling", StandardScaler({})>>, <<"log-reg", LogisticRegression({<<"n_jobs", PyInt(-1)>>})>> >>))


\* gridsearch cv the best performers from above
expt_24 ==
    Item("expt_24",
         "gridsearch cv on kNN",
         "gridsearch cv on kNN",
         GridSearchCV(
             Pipeline(<< <<"knn", KNeighborsClassifier({<<"n_jobs", PyInt(-1)>>})>> >>),
             {<< <<"knn", "n_neighbors">>, PyList(<<PyInt(3), PyInt(12), PyInt(20)>>) >>},
             {<<"n_jobs", PyInt(-1)>>}))

\* the step named 'rbf-svm' as in expt_7, the grid keys left as they are
expt_25_hyphen ==
    Item("expt_25",
         "gridsearch cv on scaled rbf svm",
         "gridsearch cv on scaled rbf svm",
         GridSearchCV(
             Pipeline(<< <<"scaling", StandardScaler({})>>,
                         <<"rbf-svm", SVC({<<"kernel", PyStr("rbf")>>,
                                           <<"cache_size", PyInt(1000)>>})>> >>),
             {<< <<"rbf_svm", "C">>, PyList(<<PyFloat(1, 10), PyFloat(1, 1), PyInt(10)>>) >>,
              << <<"rbf_svm", "gamma">>,
                 PyList(<<PyFloat(1, 10000), PyFloat(1, 100), PyFloat(1, 10)>>) >>,
              << <<"rbf_svm", "class_weight">>, PyList(<<PyNone, PyStr("balanced")>>) >>},
             {<<"n_jobs", PyInt(-1)>>}))

expt_25 ==
    Item("expt_25",
         "gridsearch cv on scaled rbf svm",
         "gridsearch cv on scaled rbf svm",
         GridSearchCV(
             Pipeline(<< <<"scaling", StandardScaler({})>>,
                         <<"rbf_svm", SVC({<<"kernel", PyStr("rbf")>>,
                                           <<"cache_size", PyInt(1000)>>})>> >>),
             {<< <<"rbf_svm", "C">>, PyList(<<PyFloat(1, 10), PyFloat(1, 1), PyInt(10)>>) >>,
              << <<"rbf_svm", "gamma">>,
                 PyList(<<PyFloat(1, 10000), PyFloat(1, 100), PyFloat(1, 10)>>) >>,
              << <<"rbf_svm", "class_weight">>, PyList(<<PyNone, PyStr("balanced")>>) >>},
             {<<"n_jobs", PyInt(-1)>>}))

expt_26 ==
    Item("expt_26",
         "gridsearch cv on scaled default RF",
         "gridsearch cv on scaled default RF",
         GridSearchCV(
             Pipeline(<< <<"scaling", StandardScaler({})>>,
                         <<"random_forest",
                           RandomForestClassifier({<<"n_jobs", PyInt(-1)>>})>> >>),
             {<< <<"random_forest", "n_estimators">>,
                 PyList(<<PyInt(3), PyInt(50), PyInt(100)>>) >>,
              << <<"random_forest", "max_features">>,
                 PyList(<<PyInt(10), PyInt(100), PyStr("auto")>>) >>},
             {<<"n_jobs", PyInt(-1)>>}))

\* narrower gridsearch on three models above
expt_27 ==
    Item("expt_27",
         "focused gridsearch cv on kNN",
         "focused gridsearch cv on kNN",
         GridSearchCV(
             Pipeline(<< <<"knn", KNeighborsClassifier({<<"n_jobs", PyInt(-1)>>})>> >>),
             {<< <<"knn", "n_neighbors">>, Range(2, 12) >>,
              << <<"knn", "weights">>, PyList(<<PyStr("distance"), PyStr("uniform")>>) >>},
             {<<"n_jobs", PyInt(-1)>>}))

expt_28 ==
    Item("expt_28",
         "focussed gridsearch cv on scaled rbf svm",
         "focussed gridsearch cv on scaled rbf svm",
         GridSearchCV(
             Pipeline(<< <<"scaling", StandardScaler({})>>,
                         <<"rbf_svm", SVC({<<"kernel", PyStr("rbf")>>,
                                           <<"cache_size", PyInt(2000)>>})>> >>),
             {<< <<"rbf_svm", "C">>, PyList(<<PyInt(1), PyInt(2), PyInt(5), PyInt(10)>>) >>,
              << <<"rbf_svm", "gamma">>,
                 PyList(<<PyFloat(1, 1000), PyFloat(5, 1000), PyFloat(1, 100), PyStr("auto")>>) >>,
              << <<"rbf_svm", "class_weight">>, PyList(<<PyNone, PyStr("balanced")>>) >>},
             {<<"n_jobs", PyInt(-1)>>}))

expt_29 ==
    Item("expt_29",
         "focussed gridsearch cv on scaled default RF",
         "focussed gridsearch cv on scaled default RF",
         GridSearchCV(
             Pipeline(<< <<"scaling", StandardScaler({})>>,
                         <<"random_forest",
                           RandomForestClassifier({<<"n_jobs", PyInt(-1)>>})>> >>),
             {<< <<"random_forest", "n_estimators">>,
                 PyList(<<PyInt(10), PyInt(100), PyInt(500), PyInt(1000)>>) >>,
              << <<"random_forest", "max_features">>,
                 PyList(<<PyInt(10), PyInt(20), PyInt(30), PyStr("auto")>>) >>},
             {<<"n_jobs", PyInt(-1)>>}))

\* n_neighbors=12, the end of range(2,12), which the range does not hold
expt_30_k12 ==
    Item("expt_30",
         "best gridsearch result for kNN",
         "Neighborhood Treatment Plant Fence",
         Pipeline(<< <<"knn", KNeighborsClassifier({<<"n_jobs", PyInt(-1)>>,
                                                    <<"weights", PyStr("distance")>>,
                                                    <<"n_neighbors", PyInt(12)>>})>> >>))

\* best results of gridsearch'd models above
expt_30 ==
    Item("expt_30",
         "best gridsearch result for kNN",
         "Neighborhood Treatment Plant Fence",
         Pipeline(<< <<"knn", KNeighborsClassifier({<<"n_jobs", PyInt(-1)>>,
                                                    <<"weights", PyStr("distance")>>,
                                                    <<"n_neighbors", PyInt(4)>>})>> >>))

expt_31 ==
    Item("expt_31",
         "best gridsearch result for scaled rbf svm",
         "Small Popcorn Treatment Plant Fence",
         Pipeline(<< <<"scaling", StandardScaler({})>>,
                     <<"rbf_svm", SVC({<<"kernel", PyStr("rbf")>>,
                                       <<"cache_size", PyInt(2000)>>,
                                       <<"C", PyFloat(10, 1)>>,
                                       <<"gamma", PyStr("auto")>>,
                                       <<"class_weight", PyStr("balanced")>>})>> >>))

expt_32 ==
    Item("expt_32",
         "best gridsearch result for scaled RF",
         "Small Wooded Treatment Plant Fence",
         Pipeline(<< <<"scaling", StandardScaler({})>>,
                     <<"random_forest",
                       RandomForestClassifier({<<"n_jobs", PyInt(-1)>>,
                                               <<"n_estimators", PyInt(500)>>,
                                               <<"max_features", PyStr("auto")>>})>> >>))

\* ensemble decision tree classifier
expt_33 ==
    Item("expt_33",
         "ExtraTrees",
         "ExtraTrees",
         Pipeline(<< <<"extra-trees", ExtraTreesClassifier({<<"n_jobs", PyInt(-1)>>})>> >>))

expt_34 ==
    Item("expt_34",
         "scaled default ExtraTrees",
         "scaled default ExtraTrees",
         Pipeline(<< <<"scaling", StandardScaler({})>>, <<"extra-trees", ExtraTreesClassifier({<<"n_jobs", PyInt(-1)>>})>> >>))

\* the bagged kNN with n_neighbors=5 (the library default) instead of 4
expt_35_k5 ==
    Item("expt_35",
         "bagging on best gridsearched kNN estimator",
         "Sack of Flanders",
         BaggingClassifier(
             Pipeline(<< <<"knn", KNeighborsClassifier({<<"n_jobs", PyInt(-1)>>,
                                                        <<"weights", PyStr("distance")>>,
                                                        <<"n_neighbors", PyInt(5)>>})>> >>),
             {<<"n_jobs", PyInt(-1)>>, <<"n_estimators", PyInt(10)>>}))

\* bagging versions of three best classifiers
expt_35 ==
    Item("expt_35",
         "bagging on best gridsearched kNN estimator",
         "Sack of Flanders",
         BaggingClassifier(
             Pipeline(<< <<"knn", KNeighborsClassifier({<<"n_jobs", PyInt(-1)>>,
                                                        <<"weights", PyStr("distance")>>,
                                                        <<"n_neighbors", PyInt(4)>>})>> >>),
             {<<"n_jobs", PyInt(-1)>>, <<"n_estimators", PyInt(10)>>}))

expt_36 ==
    Item("expt_36",
         "bagging on best gridsearch scaled rbf svm",
         "Sack of small popcorn",
         BaggingClassifier(
             Pipeline(<< <<"scaling", StandardScaler({})>>,
                         <<"rbf_svm", SVC({<<"kernel", PyStr("rbf")>>,
                                           <<"cache_size", PyInt(2000)>>,
                                           <<"C", PyFloat(10, 1)>>,
                                           <<"gamma", PyStr("auto")>>,
                                           <<"class_weight", PyStr("balanced")>>})>> >>),
             {<<"n_jobs", PyInt(-1)>>, <<"n_estimators", PyInt(10)>>}))

expt_37 ==
    Item("expt_37",
         "bagging on best gridsearch result for scaled RF",
         "Sack of small shrubs",
         BaggingClassifier(
             Pipeline(<< <<"scaling", StandardScaler({})>>,
                         <<"random_forest",
                           RandomForestClassifier({<<"n_jobs", PyInt(-1)>>,
                                                   <<"n_estimators", PyInt(500)>>,
                                                   <<"max_features", PyStr("auto")>>})>> >>),
             {<<"n_jobs", PyInt(-1)>>, <<"n_estimators", PyInt(10)>>}))

\* adaboost with best RF
expt_38 ==
    Item("expt_38",
         "adaboost on best gridsearch result for scaled RF",
         "On the shoulders of Ents",
         Pipeline(<< <<"scaling", StandardScaler({})>>,
                     <<"adaboost_random_forest",
                       AdaBoostClassifier(
                           << <<"base_estimator",
                                RandomForestClassifier({<<"n_jobs", PyInt(-1)>>,
                                                        <<"n_estimators", PyInt(500)>>,
                                                        <<"max_features", PyStr("auto")>>})>> >>,
                           {<<"n_estimators", PyInt(100)>>})>> >>))

\* ensemble voting: gridsearch voting w/ best three
expt_39 ==
    Item("expt_39",
         "gs over voting across best gs models",
         "gs over voting across best gs models",
         GridSearchCV(
             VotingClassifier(<<
                 <<"gs_knn",
                   Pipeline(<< <<"knn", KNeighborsClassifier({<<"n_jobs", PyInt(-1)>>,
                                                              <<"weights", PyStr("distance")>>,
                                                              <<"n_neighbors", PyInt(4)>>})>> >>)>>,
                 <<"gs_svm",
                   Pipeline(<< <<"scaling", StandardScaler({})>>,
                               <<"rbf_svm", SVC({<<"kernel", PyStr("rbf")>>,
                                                 <<"cache_size", PyInt(2000)>>,
                                                 <<"C", PyFloat(10, 1)>>,
                                                 <<"gamma", PyStr("auto")>>,
                                                 <<"class_weight", PyStr("balanced")>>})>> >>)>>,
                 <<"gs_rf",
                   Pipeline(<< <<"scaling", StandardScaler({})>>,
                               <<"random_forest",
                                 RandomForestClassifier({<<"n_jobs", PyInt(-1)>>,
                                                         <<"n_estimators", PyInt(500)>>,
                                                         <<"max_features", PyStr("auto")>>})>> >>)>> >>),
             {<< <<"voting">>, PyList(<<PyStr("hard"), PyStr("soft")>>) >>},
             {<<"n_jobs", PyInt(-1)>>}))

\* the last item written under the key of the one before it
Literal_dupkey ==
    << expt_1, expt_2, expt_3, expt_4, expt_5, expt_6, expt_7, expt_8, expt_9,
       expt_10, expt_11, expt_12, expt_13, expt_14, expt_15, expt_16, expt_17,
       expt_18, expt_19, expt_20, expt_21, expt_22, expt_23, expt_24, expt_25,
       expt_26, expt_27, expt_28, expt_29, expt_30, expt_31, expt_32, expt_33,
       expt_34, expt_35, expt_36, expt_37, expt_38,
       [expt_39 EXCEPT !.key = "expt_38"] >>

\* the dict display  { 'expt_1': {...}, ..., 'expt_39': {...} }
Literal ==
    << expt_1, expt_2, expt_3, expt_4, expt_5, expt_6, expt_7, expt_8, expt_9,
       expt_10, expt_11, expt_12, expt_13, expt_14, expt_15, expt_16, expt_17,
       expt_18, expt_19, expt_20, expt_21, expt_22, expt_23, expt_24, expt_25,
       expt_26, expt_27, expt_28, expt_29, expt_30, expt_31, expt_32, expt_33,
       expt_34, expt_35, expt_36, expt_37, expt_38, expt_39 >>

(***************************************************************************)
(* The names bound by the import statements.                               *)
(***************************************************************************)
\* the import statements, in order:  import m  /  from m import names
ImportStatements ==
    << [module |-> "logging", names |-> {"logging"}],
       [module |-> "sys", names |-> {"sys"}],
       [module |-> "sklearn.discriminant_analysis",
        names |-> {"LinearDiscriminantAnalysis", "QuadraticDiscriminantAnalysis"}],
       [module |-> "sklearn.dummy", names |-> {"DummyClassifier"}],
       [module |-> "sklearn.ensemble",
        names |-> {"AdaBoostClassifier", "BaggingClassifier", "ExtraTreesClassifier",
                   "RandomForestClassifier", "VotingClassifier"}],
       [module |-> "sklearn.grid_search", names |-> {"GridSearchCV"}],
       [module |-> "sklearn.linear_model", names |-> {"SGDClassifier", "LogisticRegression"}],
       [module |-> "sklearn.naive_bayes", names |-> {"GaussianNB", "MultinomialNB"}],
       [module |-> "sklearn.neighbors", names |-> {"KNeighborsClassifier"}],
       [module |-> "sklearn.preprocessing", names |-> {"StandardScaler"}],
       [module |-> "sklearn.svm", names |-> {"SVC"}],
       [module |-> "sklearn.tree", names |-> {"DecisionTreeClassifier"}],
       [module |-> "sklearn.pipeline", names |-> {"Pipeline"}] >>

StdlibModules == {"logging", "sys"}

\* the names the import statements bind when all of them succeed
ImportedNames ==
    UNION {ImportStatements[i].names : i \in DOMAIN ImportStatements}

\* the classes imported from scikit-learn
SklearnNames ==
    UNION {ImportStatements[i].names :
             i \in {j \in DOMAIN ImportStatements :
                      ImportStatements[j].module \notin StdlibModules}}

\* The environments the module may be loaded in: Python 2 or 3, with
\*   "absent"  no scikit-learn installed
\*   "0.16"    a release before 0.17, without sklearn.discriminant_analysis
\*   "0.17"    a release 0.17 to 0.19, which ships every module imported
\*   "0.20"    a release from 0.20 on, without sklearn.grid_search (it is
\*             sklearn.model_selection there)
Environments ==
    [python : {2, 3}, sklearn : {"absent", "0.16", "0.17", "0.20"}]

\* whether  import module  succeeds in an environment
Importable(module, e) ==
    IF module \in StdlibModules THEN TRUE
    ELSE IF e.sklearn = "absent" THEN FALSE
    ELSE IF module = "sklearn.discriminant_analysis" THEN e.sklearn # "0.16"
    ELSE IF module = "sklearn.grid_search" THEN e.sklearn \in {"0.16", "0.17"}
    ELSE TRUE

\* the first import statement that raises ImportError, 0 when none does
FirstFailingImport(e) ==
    LET failing == {i \in DOMAIN ImportStatements :
                      ~Importable(ImportStatements[i].module, e)}
    IN  IF failing = {} THEN 0
        ELSE CHOOSE i \in failing : \A j \in failing : i <= j

\* the names bound by the import statements before statement n
NamesBefore(n) ==
    UNION {ImportStatements[i].names : i \in 1..(n - 1)}

\* Of the imported classes, the data transformation (sklearn.preprocessing)
Transformers == {"StandardScaler"}

\* the composite estimators: they hold other estimators
Composites == {"Pipeline", "GridSearchCV"}

\* every other imported class is a classifier
Classifiers == (SklearnNames \ Transformers) \ Composites

\* The keyword parameters each constructor accepts (scikit-learn 0.17, the
\* release line that provides sklearn.grid_search and
\* sklearn.discriminant_analysis together).
ForestParams ==
    { "n_estimators", "criterion", "max_depth", "min_samples_split",
      "min_samples_leaf", "min_weight_fraction_leaf", "max_features",
      "max_leaf_nodes", "bootstrap", "oob_score", "n_jobs", "random_state",
      "verbose", "warm_start", "class_weight" }

Signature(cls) ==
    CASE cls = "DummyClassifier" -> {"strategy", "random_state", "constant"}
      [] cls = "SGDClassifier" ->
            { "loss", "penalty", "alpha", "l1_ratio", "fit_intercept", "n_iter",
              "shuffle", "verbose", "epsilon", "n_jobs", "random_state",
              "learning_rate", "eta0", "power_t", "class_weight", "warm_start",
              "average" }
      [] cls = "StandardScaler" -> {"copy", "with_mean", "with_std"}
      [] cls = "KNeighborsClassifier" ->
            { "n_neighbors", "weights", "algorithm", "leaf_size", "p", "metric",
              "metric_params", "n_jobs" }
      [] cls = "SVC" ->
            { "C", "kernel", "degree", "gamma", "coef0", "shrinking",
              "probability", "tol", "cache_size", "class_weight", "verbose",
              "max_iter", "decision_function_shape", "random_state" }
      [] cls = "DecisionTreeClassifier" ->
            { "criterion", "splitter", "max_depth", "min_samples_split",
              "min_samples_leaf", "min_weight_fraction_leaf", "max_features",
              "random_state", "max_leaf_nodes", "class_weight", "presort" }
      [] cls = "RandomForestClassifier" -> ForestParams
      [] cls = "ExtraTreesClassifier" -> ForestParams
      [] cls = "AdaBoostClassifier" ->
            { "base_estimator", "n_estimators", "learning_rate", "algorithm",
              "random_state" }
      [] cls = "BaggingClassifier" ->
            { "base_estimator", "n_estimators", "max_samples", "max_features",
              "bootstrap", "bootstrap_features", "oob_score", "warm_start",
              "n_jobs", "random_state", "verbose" }
      [] cls = "GaussianNB" -> {}
      [] cls = "MultinomialNB" -> {"alpha", "fit_prior", "class_prior"}
      [] cls = "LinearDiscriminantAnalysis" ->
            { "solver", "shrinkage", "priors", "n_components",
              "store_covariance", "tol" }
      [] cls = "QuadraticDiscriminantAnalysis" -> {"priors", "reg_param"}
      [] cls = "LogisticRegression" ->
            { "penalty", "dual", "tol", "C", "fit_intercept",
              "intercept_scaling", "class_weight", "random_state", "solver",
              "max_iter", "multi_class", "verbose", "warm_start", "n_jobs" }
      [] cls = "VotingClassifier" -> {"estimators", "voting", "weights"}
      [] cls = "GridSearchCV" ->
            { "estimator", "param_grid", "scoring", "fit_params", "n_jobs",
              "iid", "refit", "cv", "verbose", "pre_dispatch", "error_score" }
      [] cls = "Pipeline" -> {"steps"}
      [] OTHER -> {}

PartNames(parts) == {parts[i][1] : i \in DOMAIN parts}

KwNames(kw) == {a[1] : a \in kw}

\* The exception the constructor of one call raises, "none" when it
\* returns an object:
\*   NameError   the class name is not bound
\*   TypeError   a keyword is not a parameter of the constructor
\*   Pipeline    ValueError when step names repeat; TypeError when a step
\*               before the last is not a transformer
\*   GridSearchCV (sklearn.grid_search, _check_param_grid)
\*               ValueError when a value of param_grid is not a list, or
\*               is an empty list
CallError(e, names, python) ==
    IF e.cls \notin names THEN "NameError"
    ELSE IF ~(KwNames(e.kw) \subseteq Signature(e.cls)) THEN "TypeError"
    ELSE IF /\ e.cls = "Pipeline"
            /\ Cardinality(PartNames(e.parts)) # Len(e.parts)
         THEN "ValueError"
    ELSE IF /\ e.cls = "Pipeline"
            /\ \E i \in 1..(Len(e.parts) - 1) : e.parts[i][2].cls \notin Transformers
         THEN "TypeError"
    ELSE IF /\ e.cls = "GridSearchCV"
            /\ \E g \in e.grid :
                  \/ Evaluate(g[2], python).type # "list"
                  \/ Len(g[2].items) = 0
         THEN "ValueError"
    ELSE "none"

\* Evaluating a call expression evaluates its arguments first, in order;
\* the first exception raised ends the evaluation.
RECURSIVE ExprError(_, _, _)
ExprError(e, names, python) ==
    LET failing == {i \in DOMAIN e.parts :
                      ExprError(e.parts[i][2], names, python) # "none"}
    IN  IF failing = {} THEN CallError(e, names, python)
        ELSE ExprError(e.parts[CHOOSE i \in failing : \A j \in failing : i <= j][2],
                       names, python)

\* The object a call expression evaluates to.  id is the identity of the
\* new instance: every call site of the literal is executed once, so the
\* instance is named by the position of the call in the literal (item
\* index, then the path through the arguments).
RECURSIVE Construct(_, _, _)
Construct(e, id, python) ==
    [ id     |-> id,
      cls    |-> e.cls,
      kw     |-> e.kw,
      grid   |-> {<<g[1], Evaluate(g[2], python)>> : g \in e.grid},
      parts  |-> [k \in DOMAIN e.parts |->
                    <<e.parts[k][1], Construct(e.parts[k][2], id \o <<k>>, python)>>] ]

\* the value of item i:  {'note': .., 'name': .., 'pl': ..}
Entry(i, python) ==
    [ note |-> Literal[i].note,
      name |-> Literal[i].name,
      pl   |-> Construct(Literal[i].pl, <<i>>, python) ]

\* d[key] = value  on a dict
Store(d, key, value) ==
    [k \in DOMAIN d \cup {key} |-> IF k = key THEN value ELSE d[k]]

EmptyDict == [k \in {} |-> PyNone]

KeyError == [ok |-> FALSE, value |-> [t |-> "exception", v |-> "KeyError"]]

\* d.get(k): the value, or None
GetItem_get(d, k) ==
    [ok |-> TRUE, value |-> IF k \in DOMAIN d THEN d[k] ELSE PyNone]

\* d[k]  on a dict: the value, or KeyError
GetItem(d, k) ==
    IF k \in DOMAIN d THEN [ok |-> TRUE, value |-> d[k]] ELSE KeyError

(***************************************************************************)
(* The identifiers an importing script asks for: keys written in the       *)
(* literal (one or two from each of its groups) and some that are not.     *)
(***************************************************************************)
LiteralKeys == {Literal[i].key : i \in DOMAIN Literal}

KnownKeys ==
    {"expt_1", "expt_7", "expt_25", "expt_28", "expt_31", "expt_36", "expt_38",
     "expt_39"}

UnknownKeys == {"expt_0", "expt_40", "expt_01", "Expt_1", "knn", ""}

LookupKeys == KnownKeys \cup UnknownKeys

(***************************************************************************)
(* The state machine.                                                      *)
(***************************************************************************)
Init ==
    /\ env \in Environments
    /\ pc = "import"
    /\ error = "none"
    /\ imported = {}
    /\ next = 1
    /\ experiment_dict = EmptyDict
    /\ log = <<>>

\* lines 9-24: the import statements, in order; the first one whose module
\* the environment does not provide raises ImportError and ends the load
Import ==
    /\ pc = "import"
    /\ LET n == FirstFailingImport(env)
       IN  IF n = 0
           THEN /\ imported' = ImportedNames
                /\ pc' = "build"
                /\ error' = error
           ELSE /\ imported' = NamesBefore(n)
                /\ pc' = "raised"
                /\ error' = "ImportError"
    /\ UNCHANGED <<env, next, experiment_dict, log>>

\* one item of the dict display: its value is evaluated (the constructor
\* calls made) and stored under its key; an exception ends the load
Build ==
    /\ pc = "build"
    /\ next \in DOMAIN Literal
    /\ LET raised == ExprError(Literal[next].pl, imported, env.python)
       IN  IF raised # "none"
           THEN /\ pc' = "raised"
                /\ error' = raised
                /\ UNCHANGED <<next, experiment_dict>>
           ELSE /\ experiment_dict' =
                      Store(experiment_dict, Literal[next].key, Entry(next, env.python))
                /\ next' = next + 1
                /\ UNCHANGED <<pc, error>>
    /\ UNCHANGED <<env, imported, log>>

\* the display is complete: the name experiment_dict is bound
Bind ==
    /\ pc = "build"
    /\ next = Len(Literal) + 1
    /\ pc' = "loaded"
    /\ UNCHANGED <<env, error, imported, next, experiment_dict, log>>

\* the lookup written as experiment_dict.pop(k)
Lookup_pop(k) ==
    /\ pc = "loaded"
    /\ Len(log) < MaxLookups
    /\ log' = Append(log, [key |-> k, result |-> GetItem(experiment_dict, k)])
    /\ experiment_dict' = [j \in DOMAIN experiment_dict \ {k} |-> experiment_dict[j]]
    /\ UNCHANGED <<env, pc, error, imported, next>>

\* an importing script evaluates experiment_dict[k]
Lookup(k) ==
    /\ pc = "loaded"
    /\ Len(log) < MaxLookups
    /\ log' = Append(log, [key |-> k, result |-> GetItem(experiment_dict, k)])
    /\ UNCHANGED <<env, pc, error, imported, next, experiment_dict>>

Next ==
    \/ Import
    \/ Build
    \/ Bind
    \/ \E k \in LookupKeys : Lookup(k)

Spec == Init /\ [][Next]_vars


(***************************************************************************)
(* Views of the registry used by the properties.                           *)
(***************************************************************************)
\* every object reachable from o, o included
RECURSIVE Objects(_)
Objects(o) ==
    {o} \cup UNION {Objects(o.parts[i][2]) : i \in DOMAIN o.parts}

\* the configuration of an object: what it was constructed from, without
\* its identity
RECURSIVE Config(_)
Config(o) ==
    [ cls   |-> o.cls,
      kw    |-> o.kw,
      grid  |-> o.grid,
      parts |-> [k \in DOMAIN o.parts |-> <<o.parts[k][1], Config(o.parts[k][2])>>] ]

\* every Pipeline held by the registry, at any depth
RegistryPipelines ==
    UNION { {o \in Objects(experiment_dict[k].pl) : o.cls = "Pipeline"}
            : k \in DOMAIN experiment_dict }

\* the dict a display with its items written in the given order evaluates to
RECURSIVE DictOf(_, _)
DictOf(order, python) ==
    IF order = <<>> THEN EmptyDict
    ELSE LET n == Len(order)
         IN  Store(DictOf(SubSeq(order, 1, n - 1), python),
                   Literal[order[n]].key, Entry(order[n], python))

\* the literal order with the items at positions i and j exchanged
Swapped(i, j) ==
    [k \in DOMAIN Literal |-> IF k = i THEN j ELSE IF k = j THEN i ELSE k]

Reversed == [k \in DOMAIN Literal |-> Len(Literal) + 1 - k]

\* the dicts obtained from the literal reordered, under either interpreter
ReorderedDictsFor ==
    [python \in {2, 3} |->
        {DictOf(Reversed, python)} \cup
        {DictOf(Swapped(i, j), python) : i, j \in DOMAIN Literal}]

ReorderedDicts == ReorderedDictsFor[env.python]

NumExperiments == 39

ExpectedKeys == {"expt_" \o ToString(n) : n \in 1..NumExperiments}

(***************************************************************************)
(* Properties.                                                             *)
(***************************************************************************)
WellFormedEntry(e) ==
    /\ DOMAIN e = {"note", "name", "pl"}
    /\ e.name # ""
    /\ e.pl # PyNone

\* C1: every key of experiment_dict looks up to an entry with a non-empty
\* display name and a computation object that is present and not None, in
\* every state of the load and after any sequence of lookups; every entry a
\* lookup has returned is such an entry.
C1_EntriesWellFormed ==
    /\ \A k \in DOMAIN experiment_dict :
          /\ GetItem(experiment_dict, k).ok
          /\ WellFormedEntry(GetItem(experiment_dict, k).value)
    /\ \A i \in DOMAIN log :
          log[i].result.ok => WellFormedEntry(log[i].result.value)

C1_Witness ==
    /\ pc = "loaded"
    /\ Len(log) = 2
    /\ log[1].key = "expt_1" /\ log[1].result.ok
    /\ log[2].key = "expt_39" /\ log[2].result.ok

\* C2: once loaded, the key set is exactly {expt_1, ..., expt_39}, no key is
\* written twice in the literal, and the dict is the same whatever the
\* order of the items in the literal.
C2_KeysExactAndUnique ==
    pc = "loaded" =>
        /\ DOMAIN experiment_dict = ExpectedKeys
        /\ \A i, j \in DOMAIN Literal : i # j => Literal[i].key # Literal[j].key
        /\ \A d \in ReorderedDicts :
              /\ DOMAIN d = DOMAIN experiment_dict
              /\ \A k \in LiteralKeys \cup UnknownKeys :
                    GetItem(d, k) = GetItem(experiment_dict, k)

C2_Witness ==
    /\ pc = "loaded"
    /\ Cardinality(DOMAIN experiment_dict) = NumExperiments
    /\ Cardinality(ReorderedDicts) = 1
    /\ \E i \in DOMAIN log : log[i].key = "expt_39" /\ log[i].result.ok

\* the estimator a wrapper (GridSearchCV, BaggingClassifier) was given
Wrapped(o) == o.parts[1][2]

IsPipelineOrSearchOfPipeline(o) ==
    \/ o.cls = "Pipeline"
    \/ /\ o.cls = "GridSearchCV"
       /\ Wrapped(o).cls = "Pipeline"
       /\ o.grid # {}

\* C3: once loaded, the computation object of every entry is a Pipeline, or
\* a GridSearchCV with a non-empty param_grid whose wrapped estimator is a
\* Pipeline; no entry holds an object of any other shape.
C3_OnlyPipelineOrSearch ==
    pc = "loaded" =>
        \A k \in DOMAIN experiment_dict :
            IsPipelineOrSearchOfPipeline(experiment_dict[k].pl)

C5_ReadOnlyAfterLoad ==
    [][pc = "loaded" =>
          /\ pc' = "loaded"
          /\ experiment_dict' = experiment_dict
          /\ \A i, j \in DOMAIN log' :
                log'[i].key = log'[j].key => log'[i].result = log'[j].result]_vars

C5_Witness ==
    /\ pc = "loaded"
    /\ Len(log) = 2
    /\ log[1].key = "expt_25" /\ log[2].key = "expt_25"
    /\ log[1].result.ok
    /\ log[1].result.value.pl.id = log[2].result.value.pl.id

\* C6: a lookup of an identifier that is not a key yields KeyError (not an
\* entry, not a default), adds no entry for it and leaves the registry as
\* it was; a lookup of a key yields that key's entry and never fails.
C6_UnknownKeyFails ==
    [][(pc = "loaded" /\ log' # log) =>
          LET r == log'[Len(log')]
          IN  /\ r.key \in DOMAIN experiment_dict =>
                    /\ r.result.ok
                    /\ r.result.value = experiment_dict[r.key]
              /\ r.key \notin DOMAIN experiment_dict =>
                    /\ ~r.result.ok
                    /\ r.result = KeyError
                    /\ r.key \notin DOMAIN experiment_dict'
                    /\ experiment_dict' = experiment_dict]_vars

C6_Witness ==
    /\ pc = "loaded"
    /\ Len(log) = 2
    /\ log[1].key = "expt_40" /\ log[1].result = KeyError
    /\ log[2].key = "expt_39" /\ log[2].result.ok
    /\ "expt_40" \notin DOMAIN experiment_dict

StepNames(p) == {p.parts[i][1] : i \in DOMAIN p.parts}

DistinctStepNames(p) == Cardinality(StepNames(p)) = Len(p.parts)

IsScalingStep(step) ==
    step[1] = "scaling" /\ step[2].cls \in Transformers

LastIsClassifier(p) ==
    Len(p.parts) >= 1 /\ p.parts[Len(p.parts)][2].cls \in Classifiers

\* C7 as claimed: every Pipeline of the registry has the StandardScaler
\* 'scaling' step before a last step that is a classifier, and its step
\* names are pairwise distinct.
C7_ScalingThenClassifier ==
    \A p \in RegistryPipelines :
        /\ LastIsClassifier(p)
        /\ \E i \in 1..(Len(p.parts) - 1) : IsScalingStep(p.parts[i])
        /\ DistinctStepNames(p)

\* C7 amended: every Pipeline of the registry ends in a classifier, every
\* step before the last is the StandardScaler 'scaling' step, of which there
\* is at most one (a Pipeline is the classifier alone, or 'scaling' then the
\* classifier), and its step names are pairwise distinct.
C7_OptionalScalingThenClassifier ==
    \A p \in RegistryPipelines :
        /\ LastIsClassifier(p)
        /\ Len(p.parts) \in {1, 2}
        /\ \A i \in 1..(Len(p.parts) - 1) : IsScalingStep(p.parts[i])
        /\ DistinctStepNames(p)

C7_Witness ==
    /\ pc = "loaded"
    /\ \E p \in RegistryPipelines : Len(p.parts) = 1 /\ p.id = <<1>>
    /\ \E p \in RegistryPipelines : Len(p.parts) = 2 /\ p.id = <<39, 1, 2>>
    /\ Cardinality(RegistryPipelines) > NumExperiments

GridSearchEntries ==
    {k \in DOMAIN experiment_dict : experiment_dict[k].pl.cls = "GridSearchCV"}

GridKeys(o) == {g[1] : g \in o.grid}

GridValues(o, key) == (CHOOSE g \in o.grid : g[1] = key)[2].items

\* the parameter a param_grid key names on the estimator est, as set_params
\* resolves it: <step>__<param> on a Pipeline is the parameter <param> of
\* the step named <step>; otherwise the key is a parameter of est itself
Resolves(est, key) ==
    IF est.cls = "Pipeline"
    THEN /\ Len(key) = 2
         /\ \E i \in DOMAIN est.parts :
               /\ est.parts[i][1] = key[1]
               /\ key[2] \in Signature(est.parts[i][2].cls)
    ELSE /\ Len(key) = 1
         /\ key[1] \in Signature(est.cls)

\* C8: once loaded, the GridSearchCV entries are expt_24..expt_29 and
\* expt_39; each has a non-empty param_grid whose value lists are non-empty
\* and whose every key resolves to a parameter of the wrapped estimator:
\* <step>__<param> with <step> a step of the wrapped Pipeline, or a direct
\* parameter ('voting') of the wrapped VotingClassifier.
C8_GridKeysResolve ==
    pc = "loaded" =>
        /\ GridSearchEntries =
              {"expt_24", "expt_25", "expt_26", "expt_27", "expt_28", "expt_29",
               "expt_39"}
        /\ \A k \in GridSearchEntries :
              LET gs == experiment_dict[k].pl
              IN  /\ gs.grid # {}
                  /\ Wrapped(gs).cls \in {"Pipeline", "VotingClassifier"}
                  /\ \A g \in gs.grid :
                        /\ Len(g[2].items) > 0
                        /\ Resolves(Wrapped(gs), g[1])

C8_Witness ==
    /\ pc = "loaded"
    /\ <<"rbf_svm", "gamma">> \in GridKeys(experiment_dict["expt_28"].pl)
    /\ "rbf-svm" \in StepNames(experiment_dict["expt_7"].pl)
    /\ GridKeys(experiment_dict["expt_39"].pl) = {<<"voting">>}
    /\ Len(GridValues(experiment_dict["expt_27"].pl, <<"knn", "n_neighbors">>)) = 10

KwValue(kw, name) == (CHOOSE a \in kw : a[1] = name)[2]

\* the Pipeline best is a point of the grid of search: same steps, the
\* settings fixed in the searched Pipeline kept, and every other setting a
\* searched parameter of that step with a value from its list
IsPointOfGrid(best, search) ==
    LET sp == Wrapped(search)
    IN  /\ best.cls = "Pipeline"
        /\ search.cls = "GridSearchCV"
        /\ sp.cls = "Pipeline"
        /\ Len(best.parts) = Len(sp.parts)
        /\ \A i \in DOMAIN best.parts :
              LET name == best.parts[i][1]
                  be == best.parts[i][2]
                  se == sp.parts[i][2]
                  searched == KwNames(be.kw) \ KwNames(se.kw)
              IN  /\ name = sp.parts[i][1]
                  /\ be.cls = se.cls
                  /\ se.kw \subseteq be.kw
                  /\ searched = {g[2] : g \in {h \in GridKeys(search) : h[1] = name}}
                  /\ \A n \in searched :
                        PyIn(KwValue(be.kw, n), GridValues(search, <<name, n>>))

\* C9: once loaded, expt_30, expt_31 and expt_32 are points of the grids of
\* expt_27, expt_28 and expt_29: the same steps with the same fixed
\* settings, and each searched parameter set to a member of its value list.
C9_BestIsPointOfGrid ==
    pc = "loaded" =>
        /\ IsPointOfGrid(experiment_dict["expt_30"].pl, experiment_dict["expt_27"].pl)
        /\ IsPointOfGrid(experiment_dict["expt_31"].pl, experiment_dict["expt_28"].pl)
        /\ IsPointOfGrid(experiment_dict["expt_32"].pl, experiment_dict["expt_29"].pl)

\* the case of C: the float 10.0 of expt_31 against the int 10 of the grid
C9_Witness ==
    /\ pc = "loaded"
    /\ LET svc == experiment_dict["expt_31"].pl.parts[2][2]
           list == GridValues(experiment_dict["expt_28"].pl, <<"rbf_svm", "C">>)
       IN  /\ KwValue(svc.kw, "C").t = "float"
           /\ \A i \in DOMAIN list : list[i].t = "int"
           /\ PyIn(KwValue(svc.kw, "C"), list)
    /\ KwValue(experiment_dict["expt_30"].pl.parts[1][2].kw, "n_neighbors") = PyInt(4)

Ids(o) == {x.id : x \in Objects(o)}

\* C10: once loaded, the Pipelines bagged in expt_35, expt_36, expt_37 and
\* the estimators gs_knn, gs_svm, gs_rf voted in expt_39 have the
\* configuration of the Pipelines of expt_30, expt_31, expt_32, the forest
\* boosted in expt_38 has the hyperparameters of the forest of expt_32, and
\* no object of one entry is an object of another entry.
C10_EnsemblesWrapBest ==
    pc = "loaded" =>
        LET d == experiment_dict
            best == <<Config(d["expt_30"].pl), Config(d["expt_31"].pl),
                      Config(d["expt_32"].pl)>>
            bagged == <<d["expt_35"].pl, d["expt_36"].pl, d["expt_37"].pl>>
            voting == Wrapped(d["expt_39"].pl)
            ada == d["expt_38"].pl.parts[2][2]
            rf == d["expt_32"].pl.parts[2][2]
            owned == UNION {{<<x, k>> : x \in Ids(d[k].pl)} : k \in DOMAIN d}
        IN  /\ \A i \in 1..3 :
                  /\ bagged[i].cls = "BaggingClassifier"
                  /\ Config(Wrapped(bagged[i])) = best[i]
                  /\ Config(voting.parts[i][2]) = best[i]
            /\ voting.cls = "VotingClassifier"
            /\ <<voting.parts[1][1], voting.parts[2][1], voting.parts[3][1]>>
                  = <<"gs_knn", "gs_svm", "gs_rf">>
            /\ ada.cls = "AdaBoostClassifier"
            /\ rf.cls = "RandomForestClassifier"
            /\ Wrapped(ada).cls = rf.cls
            /\ Wrapped(ada).kw = rf.kw
            /\ Cardinality({t[1] : t \in owned}) = Cardinality(owned)

C10_Witness ==
    /\ pc = "loaded"
    /\ Wrapped(experiment_dict["expt_36"].pl).id = <<36, 1>>
    /\ experiment_dict["expt_31"].pl.id = <<31>>
    /\ Wrapped(experiment_dict["expt_38"].pl.parts[2][2]).id = <<38, 2, 1>>
    /\ Len(Wrapped(experiment_dict["expt_39"].pl).parts) = 3

====
